---- MODULE Spec2Model ----
(***************************************************************************)
(* Model of src/termdict/streamer.rs: TermStreamerBuilder (a range         *)
(* builder over a sorted term dictionary) and TermStreamer (the cursor it  *)
(* produces).  The fst enumeration primitives and the dictionary's         *)
(* ordinal -> TermInfo lookup live outside streamer.rs and are modelled    *)
(* from their contract.                                                    *)
(***************************************************************************)
EXTENDS Naturals, Sequences, FiniteSets

\* Number of byte strings the dictionary keys and the bounds are drawn from.
NumKeys == 5

VARIABLES
    fst_map,      \* the TermDictionary: [keys: sorted sequence of byte strings]
    phase,        \* "builder" until into_stream() consumed the builder, then "stream"
    builder,      \* TermStreamerBuilder: [stream_builder: [min, max]]
    streamer,     \* TermStreamer: [stream, term_ord, current_key, current_value]
    op,           \* name of the last operation called
    ret,          \* what the last operation returned: [tag, ...]
    lastLower,    \* history: last lower-side call made on the builder
    lastUpper,    \* history: last upper-side call made on the builder
    lowerShadow,  \* history: the last lower-side call overwrote a call that excluded
                  \* a dictionary key the last call admits
    upperShadow,  \* history: same for the upper side
    produced,     \* history: (key(), term_ord(), value()) after each true advance()
    exhausted,    \* history: "no" until an advance() returns false, "once" after
                  \* the first false return, "again" after any later one
    otherBuilder, \* the builder of a second cursor over the same dictionary
    other,        \* the second TermStreamer
    otherProduced \* history: what the second cursor produced

\* The second cursor.
second == <<otherBuilder, other, otherProduced>>

vars == <<fst_map, phase, builder, streamer, op, ret,
          lastLower, lastUpper, lowerShadow, upperShadow, produced, exhausted,
          otherBuilder, other, otherProduced>>

----------------------------------------------------------------------------
\* Byte strings and their order

\* The n-th byte string over {a, b} in length-then-alphabet enumeration:
\* "", a, b, aa, ab, ba, bb, aaa, ...
RECURSIVE KeyOf(_)
KeyOf(n) ==
    IF n = 0 THEN <<>>
    ELSE Append(KeyOf((n - 1) \div 2), IF n % 2 = 1 THEN 97 ELSE 98)

Keys == { KeyOf(n) : n \in 0..(NumKeys - 1) }

MinOf(a, b) == IF a <= b THEN a ELSE b

\* Byte-lexicographic order of [u8] slices: a < b.
BytesLess(a, b) ==
    \/ /\ Len(a) < Len(b)
       /\ \A i \in 1..Len(a) : a[i] = b[i]
    \/ \E i \in 1..MinOf(Len(a), Len(b)) :
          /\ a[i] < b[i]
          /\ \A j \in 1..(i - 1) : a[j] = b[j]

BytesLe(a, b) == a = b \/ BytesLess(a, b)

----------------------------------------------------------------------------
\* The term dictionary (external to streamer.rs)

\* The keys of a dictionary, in ascending order; the ordinal of keys[i] is i - 1.
RECURSIVE SortKeys(_)
SortKeys(S) ==
    IF S = {} THEN <<>>
    ELSE LET m == CHOOSE k \in S : \A o \in S : BytesLe(k, o)
         IN  <<m>> \o SortKeys(S \ {m})

\* TermInfo::default()
TermInfoDefault == [doc_freq |-> 0, postings_offset |-> 0]

\* TermDictionary::term_info_from_ord: the metadata of the term with this ordinal;
\* defined for the ordinals of the dictionary only.
term_info_from_ord(map, ord) ==
    IF ord < Len(map.keys)
    THEN [ok |-> TRUE, info |-> [doc_freq |-> ord + 1, postings_offset |-> ord]]
    ELSE [ok |-> FALSE, info |-> TermInfoDefault]

----------------------------------------------------------------------------
\* fst::map::StreamBuilder and fst::map::Stream (external crate)

Unbounded == [kind |-> "Unbounded", key |-> <<>>]
Included(b) == [kind |-> "Included", key |-> b]
Excluded(b) == [kind |-> "Excluded", key |-> b]

\* A key lies below the lower bound.
subceeded_by(bound, k) ==
    CASE bound.kind = "Included" -> BytesLess(k, bound.key)
      [] bound.kind = "Excluded" -> BytesLe(k, bound.key)
      [] OTHER -> FALSE

\* A key lies above the upper bound.
exceeded_by(bound, k) ==
    CASE bound.kind = "Included" -> BytesLess(bound.key, k)
      [] bound.kind = "Excluded" -> BytesLe(bound.key, k)
      [] OTHER -> FALSE

StreamBuilder_new == [min |-> Unbounded, max |-> Unbounded]
StreamBuilder_ge(sb, bound) == [sb EXCEPT !.min = Included(bound)]
StreamBuilder_gt(sb, bound) == [sb EXCEPT !.min = Excluded(bound)]
StreamBuilder_le(sb, bound) == [sb EXCEPT !.max = Included(bound)]
StreamBuilder_lt(sb, bound) == [sb EXCEPT !.max = Excluded(bound)]

\* StreamBuilder::into_stream: seek to the first key not below the lower bound.
StreamBuilder_into_stream(map, sb) ==
    LET at == { i \in 1..Len(map.keys) : ~subceeded_by(sb.min, map.keys[i]) }
    IN  [pos    |-> IF at = {} THEN Len(map.keys) + 1
                    ELSE CHOOSE i \in at : \A j \in at : i <= j,
         end_at |-> sb.max]

\* Stream::next: the next (key, ordinal), or nothing once the keys are used up
\* or the upper bound is exceeded (the enumeration is then over for good).
Stream_next(map, stream) ==
    IF stream.pos > Len(map.keys)
    THEN [stream |-> stream, some |-> FALSE, term |-> <<>>, term_ord |-> 0]
    ELSE IF exceeded_by(stream.end_at, map.keys[stream.pos])
    THEN [stream |-> [stream EXCEPT !.pos = Len(map.keys) + 1],
          some |-> FALSE, term |-> <<>>, term_ord |-> 0]
    ELSE [stream |-> [stream EXCEPT !.pos = @ + 1],
          some |-> TRUE, term |-> map.keys[stream.pos], term_ord |-> stream.pos - 1]

----------------------------------------------------------------------------
\* TermStreamerBuilder

TermStreamerBuilder_new(stream_builder) == [stream_builder |-> stream_builder]

\* Faulty variant of ge: the range is started afresh, so an upper bound set
\* before is lost.
ge_resets(self, bound) ==
    [self EXCEPT !.stream_builder = StreamBuilder_ge(StreamBuilder_new, bound)]

\* Faulty variant of ge: an earlier, tighter lower bound is kept.
ge_keeps_tighter(self, bound) ==
    IF /\ self.stream_builder.min.kind # "Unbounded"
       /\ BytesLess(bound, self.stream_builder.min.key)
    THEN self
    ELSE [self EXCEPT !.stream_builder = StreamBuilder_ge(@, bound)]

ge(self, bound) == [self EXCEPT !.stream_builder = StreamBuilder_ge(@, bound)]

\* Faulty variant of gt: the bound itself is let through.
gt_as_ge(self, bound) == [self EXCEPT !.stream_builder = StreamBuilder_ge(@, bound)]

gt(self, bound) == [self EXCEPT !.stream_builder = StreamBuilder_gt(@, bound)]

\* Faulty variant of le: the bound itself is kept out.
le_as_lt(self, bound) == [self EXCEPT !.stream_builder = StreamBuilder_lt(@, bound)]

le(self, bound) == [self EXCEPT !.stream_builder = StreamBuilder_le(@, bound)]

\* Faulty variant of lt: the bound itself is let through.
lt_as_le(self, bound) == [self EXCEPT !.stream_builder = StreamBuilder_le(@, bound)]

lt(self, bound) == [self EXCEPT !.stream_builder = StreamBuilder_lt(@, bound)]

\* Faulty variant of into_stream: the cursor starts on the first term of the
\* range instead of before it.
into_stream_positioned(map, self) ==
    LET st == StreamBuilder_into_stream(map, self.stream_builder)
        n == Stream_next(map, st)
    IN  [stream        |-> st,
         term_ord      |-> n.term_ord,
         current_key   |-> n.term,
         current_value |-> IF n.some THEN term_info_from_ord(map, n.term_ord).info
                           ELSE TermInfoDefault]

\* Faulty variant of into_stream: the configured bounds are dropped.
into_stream_unbounded(map, self) ==
    [stream        |-> StreamBuilder_into_stream(map, StreamBuilder_new),
     term_ord      |-> 0,
     current_key   |-> <<>>,
     current_value |-> TermInfoDefault]

into_stream(map, self) ==
    [stream        |-> StreamBuilder_into_stream(map, self.stream_builder),
     term_ord      |-> 0,
     current_key   |-> <<>>,
     current_value |-> TermInfoDefault]

----------------------------------------------------------------------------
\* TermStreamer

\* Faulty variant of advance: the ordinal is not recorded.
advance_keeps_ord(map, self) ==
    LET n == Stream_next(map, self.stream)
        info == term_info_from_ord(map, n.term_ord)
    IN  IF n.some
        THEN [self  |-> [self EXCEPT !.stream = n.stream,
                                     !.current_key = n.term,
                                     !.current_value = info.info],
              ret   |-> TRUE,
              panic |-> ~info.ok]
        ELSE [self  |-> [self EXCEPT !.stream = n.stream],
              ret   |-> FALSE,
              panic |-> FALSE]

\* Faulty variant of advance: the key buffer is cleared before the enumeration
\* is asked for the next term.
advance_clears_first(map, self) ==
    LET n == Stream_next(map, self.stream)
        info == term_info_from_ord(map, n.term_ord)
    IN  IF n.some
        THEN [self  |-> [self EXCEPT !.stream = n.stream,
                                     !.current_key = n.term,
                                     !.term_ord = n.term_ord,
                                     !.current_value = info.info],
              ret   |-> TRUE,
              panic |-> ~info.ok]
        ELSE [self  |-> [self EXCEPT !.stream = n.stream, !.current_key = <<>>],
              ret   |-> FALSE,
              panic |-> FALSE]

\* Faulty variant of advance: the metadata is looked up one ordinal too far.
advance_off_by_one(map, self) ==
    LET n == Stream_next(map, self.stream)
        info == term_info_from_ord(map, n.term_ord + 1)
    IN  IF n.some
        THEN IF info.ok
             THEN [self  |-> [self EXCEPT !.stream = n.stream,
                                          !.current_key = n.term,
                                          !.term_ord = n.term_ord,
                                          !.current_value = info.info],
                   ret   |-> TRUE,
                   panic |-> FALSE]
             ELSE [self  |-> [self EXCEPT !.stream = n.stream,
                                          !.current_key = n.term,
                                          !.term_ord = n.term_ord],
                   ret   |-> FALSE,
                   panic |-> TRUE]
        ELSE [self  |-> [self EXCEPT !.stream = n.stream],
              ret   |-> FALSE,
              panic |-> FALSE]

\* Faulty variant of advance: when the enumeration is over, the cursor rewinds
\* it to the first term of the dictionary.
advance_rewinds(map, self) ==
    LET n == Stream_next(map, self.stream)
        info == term_info_from_ord(map, n.term_ord)
    IN  IF n.some
        THEN [self  |-> [self EXCEPT !.stream = n.stream,
                                     !.current_key = n.term,
                                     !.term_ord = n.term_ord,
                                     !.current_value = info.info],
              ret   |-> TRUE,
              panic |-> ~info.ok]
        ELSE [self  |-> [self EXCEPT !.stream = [n.stream EXCEPT !.pos = 1]],
              ret   |-> FALSE,
              panic |-> FALSE]

\* Faulty variant of advance: the metadata is looked up before the new ordinal
\* is recorded, so it is the metadata of the ordinal cached before the call.
advance_value_of_prev(map, self) ==
    LET n == Stream_next(map, self.stream)
        info == term_info_from_ord(map, self.term_ord)
    IN  IF n.some
        THEN [self  |-> [self EXCEPT !.stream = n.stream,
                                     !.current_key = n.term,
                                     !.term_ord = n.term_ord,
                                     !.current_value = info.info],
              ret   |-> TRUE,
              panic |-> ~info.ok]
        ELSE [self  |-> [self EXCEPT !.stream = n.stream],
              ret   |-> FALSE,
              panic |-> FALSE]

\* advance(&mut self) -> bool: the cursor after the call, the value returned,
\* and whether the call panicked instead of returning.
advance(map, self) ==
    LET n == Stream_next(map, self.stream)
        cleared == [self EXCEPT !.stream = n.stream, !.current_key = <<>>]
        extended == [cleared EXCEPT !.current_key = @ \o n.term]
        with_ord == [extended EXCEPT !.term_ord = n.term_ord]
        info == term_info_from_ord(map, n.term_ord)
    IN  IF n.some
        THEN IF info.ok
             THEN [self  |-> [with_ord EXCEPT !.current_value = info.info],
                   ret   |-> TRUE,
                   panic |-> FALSE]
             ELSE [self |-> with_ord, ret |-> FALSE, panic |-> TRUE]
        ELSE [self  |-> [self EXCEPT !.stream = n.stream],
              ret   |-> FALSE,
              panic |-> FALSE]

term_ord(self) == [tag |-> "ord", ord |-> self.term_ord]

key(self) == [tag |-> "key", key |-> self.current_key]

value(self) == [tag |-> "value", value |-> self.current_value]

\* Faulty variant of next: the pair is read before the cursor moves.
next_stale(map, self) ==
    LET a == advance(map, self)
    IN  IF a.panic
        THEN [self |-> a.self, ret |-> [tag |-> "panic"]]
        ELSE IF a.ret
        THEN [self |-> a.self,
              ret  |-> [tag |-> "Some", key |-> key(self).key,
                        value |-> value(self).value]]
        ELSE [self |-> a.self, ret |-> [tag |-> "None"]]

\* next(&mut self) -> Option<(&[u8], &TermInfo)>
next(map, self) ==
    LET a == advance(map, self)
    IN  IF a.panic
        THEN [self |-> a.self, ret |-> [tag |-> "panic"]]
        ELSE IF a.ret
        THEN [self |-> a.self,
              ret  |-> [tag |-> "Some", key |-> key(a.self).key,
                        value |-> value(a.self).value]]
        ELSE [self |-> a.self, ret |-> [tag |-> "None"]]

----------------------------------------------------------------------------
\* History bookkeeping (not program state)

NoCall == [op |-> "none", bound |-> <<>>]

\* What a bound-setting call says about a key, by the call's name.
Admits(call, k) ==
    CASE call.op = "ge" -> BytesLe(call.bound, k)
      [] call.op = "gt" -> BytesLess(call.bound, k)
      [] call.op = "le" -> BytesLe(k, call.bound)
      [] call.op = "lt" -> BytesLess(k, call.bound)
      [] OTHER -> TRUE

DictKeys == { fst_map.keys[i] : i \in 1..Len(fst_map.keys) }

\* The new call admits a dictionary key that the call it replaces excluded.
Readmits(old, new) ==
    /\ old.op # "none"
    /\ \E k \in DictKeys : Admits(new, k) /\ ~Admits(old, k)

\* One more false return of advance().
FalseAgain(e) == IF e = "no" THEN "once" ELSE "again"

Observed(self) ==
    [key |-> key(self).key, ord |-> term_ord(self).ord, value |-> value(self).value]

----------------------------------------------------------------------------
\* Initial state and actions

Init ==
    /\ \E S \in SUBSET Keys : fst_map = [keys |-> SortKeys(S)]
    /\ phase = "builder"
    /\ builder = TermStreamerBuilder_new(StreamBuilder_new)
    /\ streamer = [stream        |-> [pos |-> 1, end_at |-> Unbounded],
                   term_ord      |-> 0,
                   current_key   |-> <<>>,
                   current_value |-> TermInfoDefault]
    /\ op = "new"
    /\ ret = [tag |-> "unit"]
    /\ lastLower = NoCall
    /\ lastUpper = NoCall
    /\ lowerShadow = FALSE
    /\ upperShadow = FALSE
    /\ produced = <<>>
    /\ exhausted = "no"
    /\ otherBuilder = TermStreamerBuilder_new(StreamBuilder_new)
    /\ other = streamer
    /\ otherProduced = <<>>

LowerCall(name, b, after) ==
    /\ phase = "builder"
    /\ builder' = after
    /\ op' = name
    /\ ret' = [tag |-> "unit"]
    /\ lastLower' = [op |-> name, bound |-> b]
    /\ lowerShadow' = Readmits(lastLower, [op |-> name, bound |-> b])
    /\ UNCHANGED <<fst_map, phase, streamer, lastUpper, upperShadow, produced, exhausted,
                   otherBuilder, other, otherProduced>>

UpperCall(name, b, after) ==
    /\ phase = "builder"
    /\ builder' = after
    /\ op' = name
    /\ ret' = [tag |-> "unit"]
    /\ lastUpper' = [op |-> name, bound |-> b]
    /\ upperShadow' = Readmits(lastUpper, [op |-> name, bound |-> b])
    /\ UNCHANGED <<fst_map, phase, streamer, lastLower, lowerShadow, produced, exhausted,
                   otherBuilder, other, otherProduced>>

Ge == \E b \in Keys : LowerCall("ge", b, ge(builder, b))

Gt == \E b \in Keys : LowerCall("gt", b, gt(builder, b))

Le == \E b \in Keys : UpperCall("le", b, le(builder, b))

Lt == \E b \in Keys : UpperCall("lt", b, lt(builder, b))

IntoStream ==
    /\ phase = "builder"
    /\ phase' = "stream"
    /\ streamer' = into_stream(fst_map, builder)
    /\ op' = "into_stream"
    /\ ret' = [tag |-> "unit"]
    /\ UNCHANGED <<fst_map, builder, lastLower, lastUpper, lowerShadow,
                   upperShadow, produced, exhausted,
                   otherBuilder, other, otherProduced>>

Advance ==
    /\ phase = "stream"
    /\ LET a == advance(fst_map, streamer)
       IN  /\ streamer' = a.self
           /\ ret' = IF a.panic THEN [tag |-> "panic"]
                      ELSE [tag |-> "bool", bool |-> a.ret]
           /\ produced' = IF a.ret THEN Append(produced, Observed(a.self))
                          ELSE produced
           /\ exhausted' = IF a.ret \/ a.panic THEN exhausted ELSE FalseAgain(exhausted)
    /\ op' = "advance"
    /\ UNCHANGED <<fst_map, phase, builder, lastLower, lastUpper, lowerShadow,
                   upperShadow, otherBuilder, other, otherProduced>>

NextItem ==
    /\ phase = "stream"
    /\ LET a == next(fst_map, streamer)
       IN  /\ streamer' = a.self
           /\ ret' = a.ret
           /\ produced' = IF a.ret.tag = "Some" THEN Append(produced, Observed(a.self))
                          ELSE produced
           /\ exhausted' = IF a.ret.tag = "None" THEN FalseAgain(exhausted) ELSE exhausted
    /\ op' = "next"
    /\ UNCHANGED <<fst_map, phase, builder, lastLower, lastUpper, lowerShadow,
                   upperShadow, otherBuilder, other, otherProduced>>

Read(name, result) ==
    /\ phase = "stream"
    /\ op' = name
    /\ ret' = result
    /\ UNCHANGED <<fst_map, phase, builder, streamer, lastLower, lastUpper,
                   lowerShadow, upperShadow, produced, exhausted,
                   otherBuilder, other, otherProduced>>

TermOrd == Read("term_ord", term_ord(streamer))

\* Faulty variant of key(): the key is fetched by pulling the enumeration.
Key_pulls ==
    /\ phase = "stream"
    /\ LET a == advance(fst_map, streamer)
       IN  /\ streamer' = a.self
           /\ ret' = key(a.self)
    /\ op' = "key"
    /\ UNCHANGED <<fst_map, phase, builder, lastLower, lastUpper, lowerShadow,
                   upperShadow, produced, exhausted,
                   otherBuilder, other, otherProduced>>

Key == Read("key", key(streamer))

Value == Read("value", value(streamer))

Next ==
    \/ Ge
    \/ Gt
    \/ Le
    \/ Lt
    \/ IntoStream
    \/ Advance
    \/ NextItem
    \/ TermOrd
    \/ Key
    \/ Value

Spec == Init /\ [][Next]_vars

\* A user who configures the builder, builds the cursor and then keeps
\* calling advance().
DriveNext ==
    \/ Ge
    \/ Gt
    \/ Le
    \/ Lt
    \/ IntoStream
    \/ Advance

FairSpec == Init /\ [][DriveNext]_vars /\ WF_vars(Advance)

----------------------------------------------------------------------------
\* Vocabulary of the properties

\* The last call was an advance() that returned false, or a next() that
\* returned None.
ReturnedFalse ==
    \/ op = "advance" /\ ret.tag = "bool" /\ ~ret.bool
    \/ op = "next" /\ ret.tag = "None"

\* The last call was an advance() that returned true, or a next() that
\* returned Some.
ReturnedTrue ==
    \/ op = "advance" /\ ret.tag = "bool" /\ ret.bool
    \/ op = "next" /\ ret.tag = "Some"

InRange(k) == Admits(lastLower, k) /\ Admits(lastUpper, k)

ProducedKeys == { produced[i].key : i \in 1..Len(produced) }

KeyOrds(s) == [i \in 1..Len(s) |-> <<s[i].key, s[i].ord>>]

IsPrefix(s, t) ==
    /\ Len(s) <= Len(t)
    /\ \A i \in 1..Len(s) : s[i] = t[i]

\* The (key, ordinal) pairs of the dictionary from index i on whose key is in
\* the range the builder calls describe.
RECURSIVE EntriesInRange(_)
EntriesInRange(i) ==
    IF i > Len(fst_map.keys) THEN <<>>
    ELSE (IF InRange(fst_map.keys[i]) THEN << <<fst_map.keys[i], i - 1>> >> ELSE <<>>)
         \o EntriesInRange(i + 1)

----------------------------------------------------------------------------
\* C1: the keys a cursor produces on its true-returning advance() calls are
\* strictly increasing in byte-lexicographic order, and so are the ordinals;
\* no key and no ordinal is produced twice.
C1_StrictlyIncreasing ==
    \A i \in 1..(Len(produced) - 1) :
        /\ BytesLess(produced[i].key, produced[i + 1].key)
        /\ produced[i].ord < produced[i + 1].ord

\* Three terms in a row were produced, one of them a proper prefix of the next.
C1_Witness ==
    /\ Len(produced) >= 3
    /\ \E i \in 1..(Len(produced) - 1) :
          /\ Len(produced[i].key) < Len(produced[i + 1].key)
          /\ Len(produced[i].key) > 0

\* C2: the (key, ordinal) pairs a cursor has produced are always the first
\* entries of the dictionary that lie in the configured range, in ascending
\* order and with the dictionary's ordinals; once advance() has returned
\* false they are all of them.
C2_ExactRange ==
    /\ IsPrefix(KeyOrds(produced), EntriesInRange(1))
    /\ ReturnedFalse => KeyOrds(produced) = EntriesInRange(1)

\* A two-sided range that leaves out the first and the last term of a
\* four-term dictionary has been walked to its end.
C2_Witness ==
    /\ ReturnedFalse
    /\ Len(fst_map.keys) = 4
    /\ lastLower.op = "ge" /\ lastLower.bound = fst_map.keys[2]
    /\ lastUpper.op = "le" /\ lastUpper.bound = fst_map.keys[3]
    /\ KeyOrds(produced) = << <<fst_map.keys[2], 1>>, <<fst_map.keys[3], 2>> >>

C4_UninitializedDefaults ==
    (phase = "stream" /\ produced = <<>>) =>
        /\ key(streamer).key = <<>>
        /\ value(streamer).value = TermInfoDefault
        /\ op = "key" => ret.key = <<>>
        /\ op = "value" => ret.value = TermInfoDefault

\* key() is read after advance() returned false on an empty range of a
\* dictionary that has terms.
C4_Witness ==
    /\ phase = "stream"
    /\ produced = <<>>
    /\ op = "key"
    /\ streamer.stream.pos > Len(fst_map.keys)
    /\ Len(fst_map.keys) >= 2

\* C5: an advance() that returns false (a next() that returns None) leaves
\* key(), value() and term_ord() as they were, so after exhaustion they are
\* those of the last true-returning advance().
C5_FalseKeepsState ==
    [][ ReturnedFalse' =>
          /\ key(streamer').key = key(streamer).key
          /\ value(streamer').value = value(streamer).value
          /\ term_ord(streamer').ord = term_ord(streamer).ord
          /\ produced' # <<>> => Observed(streamer') = produced'[Len(produced')]
      ]_vars

\* advance() has returned false after the cursor produced a term with a
\* non-empty key and a non-zero ordinal.
C5_Witness ==
    /\ ReturnedFalse
    /\ produced # <<>>
    /\ streamer.current_key # <<>>
    /\ streamer.term_ord > 0
    /\ Observed(streamer) = produced[Len(produced)]

\* C6: when no dictionary key satisfies the bounds, into_stream() can still be
\* called, and the cursor it builds never produces anything: every advance()
\* returns false and every next() returns None.
C6_EmptyRange ==
    /\ phase = "builder" => ENABLED IntoStream
    /\ (phase = "stream" /\ \A k \in DictKeys : ~InRange(k)) =>
          /\ produced = <<>>
          /\ op = "advance" => (ret.tag = "bool" /\ ~ret.bool)
          /\ op = "next" => ret.tag = "None"

\* The lower bound lies above the upper bound, the dictionary has terms on
\* both sides, and advance() has returned false.
C6_Witness ==
    /\ op = "advance" /\ ret.tag = "bool" /\ ~ret.bool
    /\ produced = <<>>
    /\ lastLower.op = "ge"
    /\ lastUpper.op = "le"
    /\ BytesLess(lastUpper.bound, lastLower.bound)
    /\ lastLower.bound \in DictKeys
    /\ lastUpper.bound \in DictKeys

\* C7: next() moves the cursor exactly as advance() does from the same state;
\* it returns Some((key(), value())) of the resulting state when advance()
\* would return true, and None when advance() would return false.
C7_NextIsAdvance ==
    [][ op' = "next" =>
          LET a == advance(fst_map, streamer)
          IN  /\ streamer' = a.self
              /\ a.ret => ret' = [tag   |-> "Some",
                                  key   |-> key(streamer').key,
                                  value |-> value(streamer').value]
              /\ (~a.ret /\ ~a.panic) => ret' = [tag |-> "None"]
      ]_vars

\* next() has returned the second term of a range.
C7_Witness ==
    /\ op = "next"
    /\ ret.tag = "Some"
    /\ Len(produced) >= 2
    /\ ret.key = produced[Len(produced)].key
    /\ ret.key # produced[Len(produced) - 1].key

\* C8: whatever calls were made before on the same side, the keys a cursor
\* produces are those the last lower-side call and the last upper-side call
\* admit, by value and by inclusiveness; once advance() has returned false
\* they are all of them.
C8_LastCallWins ==
    /\ ProducedKeys \subseteq { k \in DictKeys : InRange(k) }
    /\ ReturnedFalse => ProducedKeys = { k \in DictKeys : InRange(k) }

\* On both sides the last call replaced a call that excluded dictionary keys
\* the last call admits, and the cursor produced the whole dictionary.
C8_Witness ==
    /\ ReturnedFalse
    /\ lowerShadow
    /\ upperShadow
    /\ Len(produced) >= 3
    /\ ProducedKeys = DictKeys

\* C9: a dictionary term equal to the bound of lt(bound) is produced (the
\* statement of the doc comment of lt).
C9_LtAdmitsBound ==
    ( /\ ReturnedFalse
      /\ lastUpper.op = "lt"
      /\ lastUpper.bound \in DictKeys
      /\ Admits(lastLower, lastUpper.bound) ) => lastUpper.bound \in ProducedKeys

C11_CachedEntryConsistent ==
    (phase = "stream" /\ produced # <<>>) =>
        /\ term_ord(streamer).ord < Len(fst_map.keys)
        /\ key(streamer).key = fst_map.keys[term_ord(streamer).ord + 1]
        /\ term_info_from_ord(fst_map, term_ord(streamer).ord).ok
        /\ value(streamer).value = term_info_from_ord(fst_map, term_ord(streamer).ord).info

\* The cursor is exhausted after producing at least two terms, the last of
\* them not the first term of the dictionary.
C11_Witness ==
    /\ ReturnedFalse
    /\ Len(produced) >= 2
    /\ term_ord(streamer).ord >= 2
    /\ key(streamer).key = fst_map.keys[term_ord(streamer).ord + 1]

\* C12: Exhausted is absorbing. Once an advance() has returned false, every
\* later advance() returns false and every later next() returns None; the
\* cursor produces nothing more and its cached entry stays what it was.
C12_ExhaustedAbsorbing ==
    [][ exhausted # "no" =>
          /\ exhausted' # "no"
          /\ produced' = produced
          /\ Observed(streamer') = Observed(streamer)
          /\ op' \in {"advance", "next"} => ReturnedFalse'
      ]_vars

\* A next() has returned None on a cursor that had already returned false
\* before, after producing terms, over a dictionary with a term beyond the
\* range.
C12_Witness ==
    /\ exhausted = "again"
    /\ op = "next"
    /\ ret.tag = "None"
    /\ produced # <<>>
    /\ Len(produced) < Len(fst_map.keys)

\* C13: key(), value() and term_ord() are pure reads. A call of one of them
\* returns the cached field and leaves the cursor (cached key, ordinal,
\* metadata, position in the enumeration) and the dictionary as they were, so
\* the next advance() does the same as it would have done without the call.
C13_AccessorsPure ==
    [][ op' \in {"key", "value", "term_ord"} =>
          /\ streamer' = streamer
          /\ fst_map' = fst_map
          /\ produced' = produced
          /\ exhausted' = exhausted
          /\ advance(fst_map', streamer') = advance(fst_map, streamer)
          /\ op' = "key" => ret' = key(streamer)
          /\ op' = "value" => ret' = value(streamer)
          /\ op' = "term_ord" => ret' = term_ord(streamer)
      ]_vars

\* key() has been read on a positioned cursor whose next advance() will
\* return true.
C13_Witness ==
    /\ op = "key"
    /\ produced # <<>>
    /\ exhausted = "no"
    /\ ret.key = produced[Len(produced)].key
    /\ advance(fst_map, streamer).ret

\* The builder after one more bound-setting call, by the call's name.
ApplyCall(self, name, bound) ==
    CASE name = "ge" -> ge(self, bound)
      [] name = "gt" -> gt(self, bound)
      [] name = "le" -> le(self, bound)
      [] name = "lt" -> lt(self, bound)

\* The (key, ordinal) pairs a cursor produces when it is advanced until
\* advance() returns false.
RECURSIVE Walk(_, _)
Walk(map, self) ==
    LET a == advance(map, self)
    IN  IF a.ret
        THEN << <<key(a.self).key, term_ord(a.self).ord>> >> \o Walk(map, a.self)
        ELSE <<>>

\* The (key, ordinal) pairs of the dictionary from index i on whose key both
\* calls admit.
RECURSIVE EntriesAdmitted(_, _, _)
EntriesAdmitted(lo, hi, i) ==
    IF i > Len(fst_map.keys) THEN <<>>
    ELSE (IF Admits(lo, fst_map.keys[i]) /\ Admits(hi, fst_map.keys[i])
          THEN << <<fst_map.keys[i], i - 1>> >> ELSE <<>>)
         \o EntriesAdmitted(lo, hi, i + 1)

\* C15: a lower-side and an upper-side call combine as an intersection in
\* either order. On a new builder, for every lower call L and upper call U,
\* the cursor built after L then U and the cursor built after U then L produce
\* the same sequence, the dictionary entries both calls admit. On every
\* builder, however its calls were ordered, a call on one side leaves the
\* bound of the other side as it was, and the cursor it would build produces
\* the entries that the last lower call and the last upper call both admit.
C15_SidesCommute ==
    /\ op = "new" =>
          \A a \in Keys, b \in Keys :
              \A L \in {"ge", "gt"}, U \in {"le", "lt"} :
                  LET lu == ApplyCall(ApplyCall(builder, L, a), U, b)
                      ul == ApplyCall(ApplyCall(builder, U, b), L, a)
                      both == EntriesAdmitted([op |-> L, bound |-> a],
                                              [op |-> U, bound |-> b], 1)
                  IN  /\ Walk(fst_map, into_stream(fst_map, lu)) = both
                      /\ Walk(fst_map, into_stream(fst_map, ul)) = both
    /\ phase = "builder" =>
          /\ \A a \in Keys :
                /\ \A L \in {"ge", "gt"} :
                      ApplyCall(builder, L, a).stream_builder.max
                          = builder.stream_builder.max
                /\ \A U \in {"le", "lt"} :
                      ApplyCall(builder, U, a).stream_builder.min
                          = builder.stream_builder.min
          /\ Walk(fst_map, into_stream(fst_map, builder))
                = EntriesAdmitted(lastLower, lastUpper, 1)

\* The upper bound was set first and the lower bound after it; each of the
\* two excludes a dictionary key the other admits, and the cursor this
\* builder makes produces the keys in between.
C15_Witness ==
    /\ phase = "builder"
    /\ op \in {"ge", "gt"}
    /\ lastUpper.op \in {"le", "lt"}
    /\ \E k \in DictKeys : Admits(lastUpper, k) /\ ~Admits(lastLower, k)
    /\ \E k \in DictKeys : Admits(lastLower, k) /\ ~Admits(lastUpper, k)
    /\ Walk(fst_map, into_stream(fst_map, builder)) = EntriesAdmitted(lastLower, lastUpper, 1)
    /\ Len(Walk(fst_map, into_stream(fst_map, builder))) >= 2

\* The number of dictionary keys in the configured range.
InRangeCount == Cardinality({ k \in DictKeys : InRange(k) })

\* C16: a cursor that is advanced again and again returns false in the end.
\* advance() returns true once for each dictionary key in range, so at most
\* as often as the dictionary has keys, and returns false on the call after.
C16_Terminates ==
    /\ (phase = "stream") ~> (exhausted # "no")
    /\ [](/\ Len(produced) <= InRangeCount
          /\ InRangeCount <= Len(fst_map.keys)
          /\ exhausted # "no" => Len(produced) = InRangeCount)
    /\ [][ op' \in {"advance", "next"} =>
              IF Len(produced) < InRangeCount
              THEN ReturnedTrue' /\ Len(produced') = Len(produced) + 1
              ELSE ReturnedFalse' /\ produced' = produced
        ]_vars

\* advance() has returned false for the first time, after returning true
\* for each of the three keys in range, with keys of the dictionary left out
\* on both sides.
C16_Witness ==
    /\ exhausted = "once"
    /\ op = "advance"
    /\ Len(produced) = 3
    /\ InRangeCount = 3
    /\ Len(fst_map.keys) = 5

----------------------------------------------------------------------------
\* Two cursors over one dictionary

LowerCalls == {NoCall} \cup { [op |-> n, bound |-> b] : n \in {"ge", "gt"}, b \in Keys }

UpperCalls == {NoCall} \cup { [op |-> n, bound |-> b] : n \in {"le", "lt"}, b \in Keys }

\* The builder after the call, if there is one.
AfterCall(self, call) ==
    IF call.op = "none" THEN self ELSE ApplyCall(self, call.op, call.bound)

\* The builders the second cursor is made from: the first cursor's builder
\* (the same bounds), or a new builder (no bounds).
OtherBuilders == {builder, TermStreamerBuilder_new(StreamBuilder_new)}

\* Both cursors have been built, the first from a builder with at most one
\* call made on it.
InitTwo ==
    /\ \E S \in SUBSET Keys : fst_map = [keys |-> SortKeys(S)]
    /\ \E lo \in LowerCalls, hi \in UpperCalls :
          /\ lo = NoCall \/ hi = NoCall
          /\ lastLower = lo
          /\ lastUpper = hi
          /\ builder = AfterCall(AfterCall(TermStreamerBuilder_new(StreamBuilder_new),
                                          lo), hi)
    /\ phase = "stream"
    /\ streamer = into_stream(fst_map, builder)
    /\ op = "into_stream"
    /\ ret = [tag |-> "unit"]
    /\ lowerShadow = FALSE
    /\ upperShadow = FALSE
    /\ produced = <<>>
    /\ exhausted = "no"
    /\ otherBuilder \in OtherBuilders
    /\ other = into_stream(fst_map, otherBuilder)
    /\ otherProduced = <<>>

\* Faulty variant of an advance() on the second cursor: the key buffer is one
\* buffer shared by the cursors of a dictionary.
AdvanceOther_shared_buffer ==
    /\ phase = "stream"
    /\ LET a == advance(fst_map, other)
       IN  /\ other' = a.self
           /\ streamer' = [streamer EXCEPT !.current_key = a.self.current_key]
           /\ ret' = IF a.panic THEN [tag |-> "panic"]
                      ELSE [tag |-> "bool", bool |-> a.ret]
           /\ otherProduced' = IF a.ret THEN Append(otherProduced, Observed(a.self))
                               ELSE otherProduced
    /\ op' = "advance_other"
    /\ UNCHANGED <<fst_map, phase, builder, lastLower, lastUpper, lowerShadow,
                   upperShadow, produced, exhausted, otherBuilder>>

\* advance() on the second cursor.
AdvanceOther ==
    /\ phase = "stream"
    /\ LET a == advance(fst_map, other)
       IN  /\ other' = a.self
           /\ ret' = IF a.panic THEN [tag |-> "panic"]
                      ELSE [tag |-> "bool", bool |-> a.ret]
           /\ otherProduced' = IF a.ret THEN Append(otherProduced, Observed(a.self))
                               ELSE otherProduced
    /\ op' = "advance_other"
    /\ UNCHANGED <<fst_map, phase, builder, streamer, lastLower, lastUpper,
                   lowerShadow, upperShadow, produced, exhausted, otherBuilder>>

\* next() on the second cursor.
NextOther ==
    /\ phase = "stream"
    /\ LET a == next(fst_map, other)
       IN  /\ other' = a.self
           /\ ret' = a.ret
           /\ otherProduced' = IF a.ret.tag = "Some"
                               THEN Append(otherProduced, Observed(a.self))
                               ELSE otherProduced
    /\ op' = "next_other"
    /\ UNCHANGED <<fst_map, phase, builder, streamer, lastLower, lastUpper,
                   lowerShadow, upperShadow, produced, exhausted, otherBuilder>>

NextTwo ==
    \/ Advance
    \/ NextItem
    \/ AdvanceOther
    \/ NextOther

SpecTwo == InitTwo /\ [][NextTwo]_vars

\* The cursor after n calls of advance().
RECURSIVE AdvanceTimes(_, _, _)
AdvanceTimes(map, self, n) ==
    IF n = 0 THEN self ELSE AdvanceTimes(map, advance(map, self).self, n - 1)

\* A cursor built from builder b that has produced p is where the cursor is
\* that was driven alone: p is the beginning of what that cursor produces, and
\* the cached entry is the one it has after as many true-returning calls.
AsAlone(b, self, p) ==
    /\ IsPrefix(KeyOrds(p), Walk(fst_map, into_stream(fst_map, b)))
    /\ Observed(self) = Observed(AdvanceTimes(fst_map, into_stream(fst_map, b), Len(p)))

\* C14: two cursors over one dictionary do not disturb each other. A call on
\* one cursor moves that cursor as advance() alone would, and leaves the other
\* cursor, what it has produced, and the dictionary as they were; so under
\* every interleaving each cursor produces what it produces when driven alone
\* and caches the same entries.
C14_CursorsIndependent ==
    [][ /\ fst_map' = fst_map
        /\ op' \in {"advance", "next"} =>
              /\ second' = second
              /\ streamer' = advance(fst_map, streamer).self
        /\ op' \in {"advance_other", "next_other"} =>
              /\ streamer' = streamer
              /\ produced' = produced
              /\ other' = advance(fst_map, other).self
        /\ AsAlone(builder', streamer', produced')
        /\ AsAlone(otherBuilder', other', otherProduced')
      ]_vars

\* The second cursor has just produced its second term while the first
\* cursor, built with other bounds, has produced one term and has more to
\* come.
C14_Witness ==
    /\ op = "next_other"
    /\ ret.tag = "Some"
    /\ Len(otherProduced) = 2
    /\ Len(produced) = 1
    /\ otherBuilder # builder
    /\ produced[1].key # otherProduced[1].key
    /\ advance(fst_map, streamer).ret

====
